---- MODULE Spec2Model ----
(***************************************************************************)
(* Model of the reportanalysis package: the four-stage pipeline            *)
(* (ReportPipeline.run), the Data Loader (DataIngestionStage), the         *)
(* Synthesizer and the Analyzer as far as they touch the AI collaborator,  *)
(* the Report Renderer as a file sink, and the collaborator (MCPClient).   *)
(*                                                                         *)
(* Mappings (Python dicts) are functions whose DOMAIN is the set of keys;  *)
(* the collaborator's result mappings are modelled by their key sets.      *)
(***************************************************************************)
EXTENDS Integers, Sequences, FiniteSets, TLC

\* ------------------------------------------------------------------ bounds
MaxRows == 4
MaxCols == 2
MaxMissing == 1
MaxApiCalls == 2

\* Trend analysis: the largest cell value, the most rows of a two-column
\* frame and the most columns of a two-row frame
MaxValue == 3

MaxTrendRows == 4

MaxFrameCols == 5

\* Data quality: the most rows and columns of a table with cell contents
MaxQualityRows == 3

MaxQualityCols == 2

\* Outlier detection: the most rows of a column
MaxOutlierRows == 5

\* Statistical analysis: the most numeric columns of a frame
MaxStatCols == 3

\* Correlation analysis: the most columns of an all-numeric frame
MaxCorrCols == 3

\* The number of run calls made on one pipeline instance
MaxRuns == 2

VARIABLES
    config,         \* ReportPipeline.config: a mapping of sections
    mcp,            \* the collaborator object: the pipeline's MCPClient, or the one a stage was given
    pc,             \* position inside ReportPipeline.run: idle, stage1..stage4, except
    source,         \* the file at data_source of the current invocation
    out,            \* the file at output_path: absent, stale, partial, report
    calls,          \* the stages the current invocation has executed, in order
    args,           \* the argument each later stage was called with
    locals,         \* run's local variables: raw_data, synthesized_data, analysis_results
    io,             \* what the Loader did in the current invocation: readers, validated
    ops,            \* the collaborator operations performed in the current invocation
    err,            \* the exception in flight inside run (NoError when none)
    result,         \* outcome of the last invocation of run
    api,            \* the last direct call of the collaborator's API
    st,             \* the last direct call of a stage's execute
    fn              \* the last direct call of ConfigManager or of one of the stages' routines

vars == <<config, mcp, pc, source, out, calls, args, locals, io, ops, err, result, api, st, fn>>

\* ------------------------------------------------------------- mappings
EmptyMap == [k \in {} |-> 0]

\* dict.get(key, default)
Get(m, key, default) == IF key \in DOMAIN m THEN m[key] ELSE default

\* ------------------------------------------------------------- exceptions
NoError == [type |-> "None", msg |-> "", stage |-> ""]

Error(t, m, s) == [type |-> t, msg |-> m, stage |-> s]

\* ------------------------------------------------------------- tables
\* The fewest values of which one can lie outside the IQR fence
\* [Q1 - 1.5 IQR, Q3 + 1.5 IQR] of linearly interpolated quartiles: of three
\* values a <= b <= c, c is outside only if 2(c - b) > 3(c - a).
MinOutlierRows == 4

\* A loaded DataFrame: its shape, the number of missing cells, and whether
\* some numeric column has more than 5% of its values outside the IQR fence.
Tables ==
    { t \in [rows : 0..MaxRows, cols : 0..MaxCols, missing : 0..MaxMissing,
             outliers : BOOLEAN] :
        /\ t.missing <= t.rows * t.cols
        /\ (t.outliers => t.rows >= MinOutlierRows /\ t.cols > 0) }

NoTable == [rows |-> 0, cols |-> 0, missing |-> 0, outliers |-> FALSE]

\* len(data)
Len_(data) == data.rows

\* DataFrame.empty: any axis of length 0
Empty(data) == data.rows = 0 \/ data.cols = 0

\* ------------------------------------------------------------- sources
\* Path(data_source).suffix, as written in the name
Suffixes == {".csv", ".CSV", ".xlsx", ".XLS", ".json", ".Parquet", ".txt", ".TXT", ""}

\* Mutant of Lower: the suffix is compared as written
Lower_none(s) == s

\* str.lower() on the suffixes above
Lower(s) ==
    CASE s = ".CSV" -> ".csv"
      [] s = ".XLS" -> ".xls"
      [] s = ".Parquet" -> ".parquet"
      [] s = ".TXT" -> ".txt"
      [] OTHER -> s

\* A source: whether the path exists, its suffix, and what the reader makes
\* of its content (a table, or a reader error).
Sources ==
    { [exists |-> FALSE, suffix |-> x, parses |-> TRUE, table |-> NoTable] : x \in Suffixes }
    \cup { [exists |-> TRUE, suffix |-> x, parses |-> FALSE, table |-> NoTable] : x \in Suffixes }
    \cup { [exists |-> TRUE, suffix |-> x, parses |-> TRUE, table |-> t] :
             x \in Suffixes, t \in Tables }

NoSource == [exists |-> FALSE, suffix |-> "", parses |-> TRUE, table |-> NoTable]

\* ------------------------------------------------------------- Data Loader
\* Outcome of a call: raised or returned, the error or the value, and what
\* the call did on the way (readers invoked, validation invoked).
Raised(e, rd, v) == [raised |-> TRUE, error |-> e, value |-> NoTable, readers |-> rd, validated |-> v]

Returned(d, rd, v) == [raised |-> FALSE, error |-> NoError, value |-> d, readers |-> rd, validated |-> v]

\* _load_csv/_load_excel/_load_json/_load_parquet: the reader either returns
\* the table or raises its own error.
Load(reader, src) ==
    IF src.parses
    THEN [raised |-> FALSE, error |-> NoError, value |-> src.table]
    ELSE [raised |-> TRUE, error |-> Error("ReaderError", reader, "ingestion"), value |-> NoTable]

\* Mutant of validate_data: the minimum row count is checked first
validate_data_minfirst(cfg, data) ==
    LET min_rows == Get(cfg, "min_rows", 1)
    IN  IF Len_(data) < min_rows
        THEN Error("ValueError", "minimum required", "ingestion")
        ELSE IF Empty(data)
        THEN Error("ValueError", "Loaded data is empty", "ingestion")
        ELSE NoError

\* Mutant of validate_data: a table of exactly min_rows rows is rejected
validate_data_offbyone(cfg, data) ==
    IF Empty(data)
    THEN Error("ValueError", "Loaded data is empty", "ingestion")
    ELSE LET min_rows == Get(cfg, "min_rows", 1)
         IN  IF Len_(data) <= min_rows
             THEN Error("ValueError", "minimum required", "ingestion")
             ELSE NoError

\* Mutant of validate_data: only the minimum row count is checked
validate_data_rowsonly(cfg, data) ==
    LET min_rows == Get(cfg, "min_rows", 1)
    IN  IF Len_(data) < min_rows
        THEN Error("ValueError", "minimum required", "ingestion")
        ELSE NoError

\* DataIngestionStage._validate_data
validate_data(cfg, data) ==
    IF Empty(data)
    THEN Error("ValueError", "Loaded data is empty", "ingestion")
    ELSE LET min_rows == Get(cfg, "min_rows", 1)
         IN  IF Len_(data) < min_rows
             THEN Error("ValueError", "minimum required", "ingestion")
             ELSE NoError

\* The reader the suffix dispatches to ("" when none)
Dispatch(suffix) ==
    CASE suffix = ".csv" -> "_load_csv"
      [] suffix \in {".xlsx", ".xls"} -> "_load_excel"
      [] suffix = ".json" -> "_load_json"
      [] suffix = ".parquet" -> "_load_parquet"
      [] OTHER -> ""

\* Mutant of Exists: the existence check is missing
Exists_unchecked(src) == TRUE

\* data_path.exists() (line 50)
Exists(src) == src.exists

\* DataIngestionStage.execute
DataIngestionStage_execute(cfg, src) ==
    IF ~Exists(src)
    THEN Raised(Error("FileNotFoundError", "Data source not found", "ingestion"), <<>>, FALSE)
    ELSE LET suffix == Lower(src.suffix)
             reader == Dispatch(suffix)
         IN  IF reader = ""
             THEN Raised(Error("ValueError", "Unsupported file format", "ingestion"), <<>>, FALSE)
             ELSE LET loaded == Load(reader, src)
                  IN  IF loaded.raised
                      THEN Raised(loaded.error, <<reader>>, FALSE)
                      ELSE LET v == validate_data(cfg, loaded.value)
                           IN  IF v # NoError
                               THEN Raised(v, <<reader>>, TRUE)
                               ELSE Returned(loaded.value, <<reader>>, TRUE)

\* ------------------------------------------------------------- collaborator
\* Mutant of MCPClient_connect: the connection is reported as established
MCPClient_connect_live(c) == [c EXCEPT !.connected = TRUE]

\* MCPClient._connect: the simulated connection leaves connected False
\* (line 49), and so does the except branch (line 54).
MCPClient_connect(c) == [c EXCEPT !.connected = FALSE]

\* Mutant of MCPClient_init: connected starts out True
MCPClient_init_connected(cfg) ==
    LET c0 == [kind |-> "MCPClient",
               connected |-> TRUE,
               server_url |-> Get(cfg, "server_url", ""),
               enabled |-> Get(cfg, "enabled", FALSE)]
    IN  IF c0.enabled /\ c0.server_url # "" THEN MCPClient_connect(c0) ELSE c0

\* MCPClient.__init__
MCPClient_init(cfg) ==
    LET c0 == [kind |-> "MCPClient",
               connected |-> FALSE,
               server_url |-> Get(cfg, "server_url", ""),
               enabled |-> Get(cfg, "enabled", FALSE)]
    IN  IF c0.enabled /\ c0.server_url # "" THEN MCPClient_connect(c0) ELSE c0

\* MCPClient.is_connected
is_connected(c) == c.connected

\* MCPClient.generate_insights: the keys of the mapping returned
generate_insights(c) ==
    IF ~is_connected(c) THEN {} ELSE {"summary", "patterns", "anomalies"}

\* MCPClient.analyze_data: the keys of the mapping returned
analyze_data(c) ==
    IF ~is_connected(c) THEN {} ELSE {"insights", "confidence", "recommendations"}

\* Mutant of enhance_report: the report is marked whether connected or not
enhance_report_always(c, report_data) == ("ai_enhanced" :> TRUE) @@ report_data

\* MCPClient.enhance_report: report_data is a mapping
enhance_report(c, report_data) ==
    IF ~is_connected(c) THEN report_data ELSE ("ai_enhanced" :> TRUE) @@ report_data

\* The argument of enhance_report after the call: the not-connected branch
\* returns it untouched, the connected branch writes to report_data.copy()
enhance_report_argument(c, report_data) == report_data

\* MCPClient.disconnect
disconnect(c) == IF c.connected THEN [c EXCEPT !.connected = FALSE] ELSE c

\* The stages take their collaborator as a constructor argument
\* (mcp_client=None): None, the pipeline's MCPClient, or any object with the
\* same methods. For an injected object the environment decides each call's
\* outcome; for MCPClient the code above does.
NoCollaborator == [kind |-> "None", connected |-> FALSE, server_url |-> "", enabled |-> FALSE]

Injected == [kind |-> "Injected", connected |-> FALSE, server_url |-> "", enabled |-> FALSE]

BoolOutcome(r, v) == [raised |-> r, value |-> v]

MapOutcome(r, v) == [raised |-> r, value |-> v]

IsConnectedOutcomes(c) ==
    CASE c.kind = "MCPClient" -> {BoolOutcome(FALSE, is_connected(c))}
      [] c.kind = "Injected" -> {BoolOutcome(FALSE, TRUE), BoolOutcome(FALSE, FALSE),
                                 BoolOutcome(TRUE, FALSE)}
      [] OTHER -> {BoolOutcome(FALSE, FALSE)}

GenerateInsightsOutcomes(c) ==
    CASE c.kind = "MCPClient" -> {MapOutcome(FALSE, generate_insights(c))}
      [] c.kind = "Injected" -> {MapOutcome(FALSE, {}), MapOutcome(FALSE, {"summary"}),
                                 MapOutcome(TRUE, {})}
      [] OTHER -> {MapOutcome(FALSE, {})}

AnalyzeDataOutcomes(c) ==
    CASE c.kind = "MCPClient" -> {MapOutcome(FALSE, analyze_data(c))}
      [] c.kind = "Injected" -> {MapOutcome(FALSE, {}), MapOutcome(FALSE, {"insights"}),
                                 MapOutcome(TRUE, {})}
      [] OTHER -> {MapOutcome(FALSE, {})}

\* ------------------------------------------------------------- Synthesizer
\* Outcome of a stage call: raised or returned, the error or the mapping
\* returned, and the collaborator operations the call performed.
StageRaised(e, o) == [raised |-> TRUE, error |-> e, value |-> EmptyMap, ops |-> o]

StageReturned(v, o) == [raised |-> FALSE, error |-> NoError, value |-> v, ops |-> o]

\* SynthesisStage._generate_summary
generate_summary(data) == [total_rows |-> data.rows, total_columns |-> data.cols]

\* SynthesisStage._assess_data_quality: completeness is kept as the fraction
\* (total_cells - missing_cells) * 100 / total_cells; with total_cells = 0 the
\* division of the numpy integer yields NaN, the fraction with den = 0
assess_data_quality(data) ==
    LET total_cells == data.rows * data.cols
        missing_cells == data.missing
    IN  [completeness |-> [num |-> (total_cells - missing_cells) * 100, den |-> total_cells],
         missing_values |-> missing_cells,
         total_cells |-> total_cells]

\* SynthesisStage._extract_metadata
extract_metadata(data) == [shape |-> <<data.rows, data.cols>>]

\* Mutant of generate_ai_insights: the except branch returns an error entry
generate_ai_insights_error(gen) == IF gen.raised THEN {"error"} ELSE gen.value

\* SynthesisStage._generate_ai_insights: gen is the outcome of the
\* collaborator's generate_insights
generate_ai_insights(gen) == IF gen.raised THEN {} ELSE gen.value

\* The synthesized mapping before the collaborator is consulted
Synthesized(data) ==
    [raw_data |-> data,
     summary |-> generate_summary(data),
     data_quality |-> assess_data_quality(data),
     metadata |-> extract_metadata(data)]

\* SynthesisStage.execute. fails: a pandas computation of lines 47-54 raises;
\* conn, gen: the outcomes of is_connected and generate_insights.
SynthesisStage_execute(c, data, fails, conn, gen) ==
    IF fails
    THEN StageRaised(Error("LibraryError", "synthesis", "synthesis"), <<>>)
    ELSE LET synthesized == Synthesized(data)
         IN  IF c.kind = "None"
             THEN StageReturned(synthesized, <<>>)
             ELSE IF conn.raised
             THEN StageRaised(Error("CollaboratorError", "is_connected", "synthesis"),
                              <<"is_connected">>)
             ELSE IF conn.value
             THEN StageReturned(("ai_insights" :> generate_ai_insights(gen)) @@ synthesized,
                                <<"is_connected", "generate_insights">>)
             ELSE StageReturned(synthesized, <<"is_connected">>)

\* ------------------------------------------------------------- Analyzer
\* AnalysisStage._detect_outliers, as far as the recommendations read it:
\* whether some column's outlier percentage exceeds 5
detect_outliers(data) == [high |-> data.outliers]

\* AnalysisStage._generate_key_findings: the figures the templates are filled with
generate_key_findings(data, synthesized_data) ==
    <<[total_rows |-> synthesized_data["summary"].total_rows,
       total_columns |-> synthesized_data["summary"].total_columns],
      [missing_values |-> synthesized_data["data_quality"].missing_values,
       total_cells |-> synthesized_data["data_quality"].total_cells]>>

\* AnalysisStage._ai_powered_analysis: ana is the outcome of the
\* collaborator's analyze_data
ai_powered_analysis(ana) == IF ana.raised THEN {} ELSE ana.value

\* completeness < 90 on the fraction num / den; with den = 0 the value is
\* NaN and every comparison is false
Below90(completeness) ==
    completeness.den > 0 /\ completeness.num < 90 * completeness.den

\* AnalysisStage._generate_recommendations
generate_recommendations(analysis_results) ==
    LET quality == analysis_results["synthesized_data"]["data_quality"]
        outliers == analysis_results["outlier_detection"]
    IN  (IF Below90(quality.completeness) THEN <<"address missing data">> ELSE <<>>)
        \o (IF outliers.high THEN <<"review outliers">> ELSE <<>>)

\* Mutant of Analysis: the rows with missing cells are dropped from the
\* loaded table itself (dropna(inplace=True)) instead of from a copy
Analysis_inplace(synthesized_data) ==
    LET data == synthesized_data["raw_data"]
        dropped == [data EXCEPT !.rows = data.rows - data.missing, !.missing = 0]
    IN  [synthesized_data |-> [synthesized_data EXCEPT !["raw_data"] = dropped],
         outlier_detection |-> detect_outliers(data),
         key_findings |-> generate_key_findings(data, synthesized_data),
         recommendations |-> <<>>]

\* The analysis mapping before the collaborator is consulted
Analysis(synthesized_data) ==
    LET data == synthesized_data["raw_data"]
    IN  [synthesized_data |-> synthesized_data,
         outlier_detection |-> detect_outliers(data),
         key_findings |-> generate_key_findings(data, synthesized_data),
         recommendations |-> <<>>]

\* AnalysisStage.execute. fails: a statistical computation of lines 50-58
\* raises; conn, ana: the outcomes of is_connected and analyze_data.
AnalysisStage_execute(c, synthesized_data, fails, conn, ana) ==
    IF fails
    THEN StageRaised(Error("LibraryError", "analysis", "analysis"), <<>>)
    ELSE LET analysis_results == Analysis(synthesized_data)
         IN  IF c.kind = "None"
             THEN StageReturned(analysis_results, <<>>)
             ELSE IF conn.raised
             THEN StageRaised(Error("CollaboratorError", "is_connected", "analysis"),
                              <<"is_connected">>)
             ELSE IF conn.value
             THEN LET with_ai == ("ai_analysis" :> ai_powered_analysis(ana)) @@ analysis_results
                  IN  StageReturned([with_ai EXCEPT !["recommendations"] =
                                         generate_recommendations(with_ai)],
                                    <<"is_connected", "analyze_data">>)
             ELSE StageReturned(analysis_results, <<"is_connected">>)

\* ------------------------------------------------------------- Renderer
\* What can happen inside ReportGenerationStage.execute: the story is built
\* and the document written ("ok"); building the story raises
\* ("story_error"); doc.build raises before the output file is opened
\* ("build_error"); doc.build raises after the output file was opened for
\* writing ("write_error").
RenderOutcomes == {"ok", "story_error", "build_error", "write_error"}

\* ReportGenerationStage.execute: the error raised (NoError when it returns
\* output_file) and the file it leaves at output_path. The stage writes to
\* output_path directly and removes nothing when doc.build raises.
ReportGenerationStage_execute(analysis_results, file, env) ==
    CASE env = "ok" -> [raised |-> FALSE, error |-> NoError, file |-> "report",
                        path |-> "output_path"]
      [] env = "story_error" ->
            [raised |-> TRUE, error |-> Error("RenderError", "story", "report_generation"),
             file |-> file, path |-> ""]
      [] env = "build_error" ->
            [raised |-> TRUE, error |-> Error("RenderError", "build", "report_generation"),
             file |-> file, path |-> ""]
      [] OTHER ->
            [raised |-> TRUE, error |-> Error("RenderError", "write", "report_generation"),
             file |-> "partial", path |-> ""]

\* ------------------------------------------------------------- configuration
\* The data section: absent keys take the code's defaults
DataConfigs == {EmptyMap} \cup { [min_rows |-> n] : n \in -1..(MaxRows + 1) }

\* The mcp section
McpConfigs ==
    {EmptyMap}
    \cup { [enabled |-> e] : e \in BOOLEAN }
    \cup { [enabled |-> e, server_url |-> u] : e \in BOOLEAN, u \in {"", "http://mcp"} }

\* Configurations with the synthesis, analysis and report sections: all five
\* sections, and some of them
SectionConfigs ==
    {[data |-> [min_rows |-> 3], synthesis |-> [enable_ai_insights |-> FALSE],
      analysis |-> [correlation_threshold |-> "0.8"],
      report |-> [include_visualizations |-> TRUE], mcp |-> [enabled |-> FALSE]],
     [data |-> [min_rows |-> 2], report |-> [page_size |-> "A4"]],
     [synthesis |-> [enable_ai_insights |-> TRUE], analysis |-> EmptyMap]}

\* The configuration given to ReportPipeline: any section may be absent
Configs ==
    {EmptyMap}
    \cup { [data |-> d] : d \in DataConfigs }
    \cup { [mcp |-> m] : m \in McpConfigs }
    \cup { [data |-> d, mcp |-> m] : d \in DataConfigs, m \in McpConfigs }
    \cup SectionConfigs

\* Mutant of data_ingestion_config: the Loader is given the whole configuration
data_ingestion_config_whole == config

\* ReportPipeline.__init__: the section each component is constructed with
data_ingestion_config == Get(config, "data", EmptyMap)

synthesis_config == Get(config, "synthesis", EmptyMap)

analysis_config == Get(config, "analysis", EmptyMap)

report_generation_config == Get(config, "report", EmptyMap)

mcp_config == Get(config, "mcp", EmptyMap)

\* ------------------------------------------------------------- pipeline state
NoResult == [kind |-> "none", path |-> "", error |-> NoError]

NoLocals == [raw_data |-> NoTable, synthesized_data |-> EmptyMap, analysis_results |-> EmptyMap,
             report_path |-> ""]

NoArgs == [synthesis |-> NoTable, analysis |-> EmptyMap, report_generation |-> EmptyMap]

NoIo == [readers |-> <<>>, validated |-> FALSE]

NoApi == [n |-> 0, op |-> "", ret |-> {}, report |-> EmptyMap, arg |-> EmptyMap,
         after |-> EmptyMap]

NoSt == [stage |-> "", data |-> NoTable, input |-> EmptyMap, fails |-> FALSE,
         conn |-> BoolOutcome(FALSE, FALSE), call |-> MapOutcome(FALSE, {}),
         raised |-> FALSE, error |-> NoError, value |-> EmptyMap, ops |-> <<>>]

NoFn == [op |-> ""]

Init ==
    /\ config \in Configs
    /\ mcp = MCPClient_init(mcp_config)
    /\ pc = "idle"
    /\ source = NoSource
    /\ out \in {"absent", "stale"}
    /\ calls = <<>>
    /\ args = NoArgs
    /\ locals = NoLocals
    /\ io = NoIo
    /\ ops = <<>>
    /\ err = NoError
    /\ result = NoResult
    /\ api = NoApi
    /\ st = NoSt
    /\ fn = NoFn

\* ------------------------------------------------------------- ReportPipeline.run
\* Mutant of RunCall: the pipeline keeps its record of executed stages from
\* one invocation to the next
RunCall_appending ==
    /\ pc = "idle"
    /\ \E src \in Sources : source' = src
    /\ pc' = "stage1"
    /\ out' = IF out = "absent" THEN "absent" ELSE "stale"
    /\ calls' = calls
    /\ args' = NoArgs
    /\ locals' = NoLocals
    /\ io' = NoIo
    /\ ops' = <<>>
    /\ err' = NoError
    /\ result' = NoResult
    /\ UNCHANGED <<config, mcp, api, st>>

\* run is entered (line 65): a new invocation on (data_source, output_path).
\* Whatever is at output_path was not left by this invocation.
RunCall ==
    /\ pc = "idle"
    /\ \E src \in Sources : source' = src
    /\ pc' = "stage1"
    /\ out' = IF out = "absent" THEN "absent" ELSE "stale"
    /\ calls' = <<>>
    /\ args' = NoArgs
    /\ locals' = NoLocals
    /\ io' = NoIo
    /\ ops' = <<>>
    /\ err' = NoError
    /\ result' = NoResult
    /\ UNCHANGED <<config, mcp, api, st>>

\* run called once more on the pipeline
Run == RunCall /\ UNCHANGED fn

\* Mutant of AfterStage: a stage's exception is swallowed
AfterStage_swallow(raised, next) == next

\* The position run continues at after a stage call
AfterStage(raised, next) == IF raised THEN "except" ELSE next

\* Stage 1 (lines 69-70)
Stage1 ==
    /\ pc = "stage1"
    /\ LET r == DataIngestionStage_execute(data_ingestion_config, source)
       IN  /\ calls' = Append(calls, "ingestion")
           /\ io' = [readers |-> r.readers, validated |-> r.validated]
           /\ locals' = [locals EXCEPT !.raw_data = r.value]
           /\ err' = r.error
           /\ pc' = AfterStage(r.raised, "stage2")
    /\ UNCHANGED <<config, mcp, source, out, args, ops, result, api, st, fn>>

\* The argument run passes to the Synthesizer (line 74)
SynthesisArg == locals.raw_data

\* Stage 2 (lines 73-74)
Stage2 ==
    /\ pc = "stage2"
    /\ \E fails \in BOOLEAN, conn \in IsConnectedOutcomes(mcp),
          gen \in GenerateInsightsOutcomes(mcp) :
         LET r == SynthesisStage_execute(mcp, SynthesisArg, fails, conn, gen)
         IN  /\ calls' = Append(calls, "synthesis")
             /\ args' = [args EXCEPT !.synthesis = SynthesisArg]
             /\ ops' = ops \o r.ops
             /\ locals' = [locals EXCEPT !.synthesized_data = r.value]
             /\ err' = r.error
             /\ pc' = AfterStage(r.raised, "stage3")
    /\ UNCHANGED <<config, mcp, source, out, io, result, api, st, fn>>

\* Stage 3 (lines 77-78)
Stage3 ==
    /\ pc = "stage3"
    /\ \E fails \in BOOLEAN, conn \in IsConnectedOutcomes(mcp),
          ana \in AnalyzeDataOutcomes(mcp) :
         LET r == AnalysisStage_execute(mcp, locals.synthesized_data, fails, conn, ana)
         IN  /\ calls' = Append(calls, "analysis")
             /\ args' = [args EXCEPT !.analysis = locals.synthesized_data]
             /\ ops' = ops \o r.ops
             /\ locals' = [locals EXCEPT !.analysis_results = r.value]
             /\ err' = r.error
             /\ pc' = AfterStage(r.raised, "stage4")
    /\ UNCHANGED <<config, mcp, source, out, io, result, api, st, fn>>

\* Stage 4 (lines 81-85)
Stage4 ==
    /\ pc = "stage4"
    /\ \E env \in RenderOutcomes :
         LET r == ReportGenerationStage_execute(locals.analysis_results, out, env)
         IN  /\ calls' = Append(calls, "report_generation")
             /\ args' = [args EXCEPT !.report_generation = locals.analysis_results]
             /\ out' = r.file
             /\ locals' = [locals EXCEPT !.report_path = r.path]
             /\ err' = r.error
             /\ pc' = AfterStage(r.raised, "return")
    /\ UNCHANGED <<config, mcp, source, io, ops, result, api, st, fn>>

\* run returns report_path (lines 87-88); its arguments, its locals and the
\* record of what the invocation did end with it
Return ==
    /\ pc = "return"
    /\ result' = [kind |-> "returned", path |-> locals.report_path, error |-> NoError]
    /\ pc' = "idle"
    /\ source' = NoSource
    /\ args' = NoArgs
    /\ locals' = NoLocals
    /\ io' = NoIo
    /\ ops' = <<>>
    /\ UNCHANGED <<config, mcp, out, calls, err, api, st, fn>>

\* Mutant of Reraise: the exception is wrapped in a new one
Reraise_wrapped(e) == Error("RuntimeError", "Pipeline execution failed", e.stage)

\* What the except clause raises for the exception it caught (lines 90-92)
Reraise(e) == e

\* The except clause: log, then raise; the invocation ends as in Return
Except ==
    /\ pc = "except"
    /\ result' = [kind |-> "raised", path |-> "", error |-> Reraise(err)]
    /\ pc' = "idle"
    /\ source' = NoSource
    /\ args' = NoArgs
    /\ locals' = NoLocals
    /\ io' = NoIo
    /\ ops' = <<>>
    /\ UNCHANGED <<config, mcp, out, calls, err, api, st, fn>>

Next == Run \/ Stage1 \/ Stage2 \/ Stage3 \/ Stage4 \/ Return \/ Except

Spec == Init /\ [][Next]_vars

\* ------------------------------------------------------------- repeated runs
\* One pipeline instance on which run is called again and again; the caller
\* counts the invocations and remembers what was at output_path on entry
InitRerun ==
    /\ config \in Configs
    /\ mcp = MCPClient_init(mcp_config)
    /\ pc = "idle"
    /\ source = NoSource
    /\ out \in {"absent", "stale"}
    /\ calls = <<>>
    /\ args = NoArgs
    /\ locals = NoLocals
    /\ io = NoIo
    /\ ops = <<>>
    /\ err = NoError
    /\ result = NoResult
    /\ api = NoApi
    /\ st = NoSt
    /\ fn = [op |-> "", runs |-> 0, output |-> "absent"]

\* pipeline.run(data_source, output_path), the fn.runs + 1st call on the instance
Rerun ==
    /\ fn.runs < MaxRuns
    /\ RunCall
    /\ fn' = [op |-> "run", runs |-> fn.runs + 1, output |-> out']

NextRerun == Rerun \/ Stage1 \/ Stage2 \/ Stage3 \/ Stage4 \/ Return \/ Except

RerunSpec == InitRerun /\ [][NextRerun]_vars

\* ------------------------------------------------------------- collaborator API
\* The collaborator's methods called directly on the pipeline's MCPClient
\* (ReportPipeline.mcp_client), in any order, while no run is in progress.
\* api records the call: its name, the mapping keys it returned (ret), and
\* for enhance_report the argument (arg), the mapping returned (report) and
\* the argument as the call left it (after).
ReportData == {EmptyMap, [title |-> "report"], [title |-> "report", ai_enhanced |-> FALSE]}

ApiCall(op, ret, arg, report) ==
    api' = [n |-> api.n + 1, op |-> op, ret |-> ret, report |-> report, arg |-> arg,
            after |-> arg]

PipelineUnchanged ==
    UNCHANGED <<config, pc, source, out, calls, args, locals, io, ops, err, result, st, fn>>

ApiConnect ==
    /\ pc = "idle" /\ api.n < MaxApiCalls
    /\ mcp' = MCPClient_connect(mcp)
    /\ ApiCall("_connect", {}, EmptyMap, EmptyMap)
    /\ PipelineUnchanged

ApiGenerateInsights ==
    /\ pc = "idle" /\ api.n < MaxApiCalls
    /\ ApiCall("generate_insights", generate_insights(mcp), EmptyMap, EmptyMap)
    /\ UNCHANGED mcp
    /\ PipelineUnchanged

ApiAnalyzeData ==
    /\ pc = "idle" /\ api.n < MaxApiCalls
    /\ ApiCall("analyze_data", analyze_data(mcp), EmptyMap, EmptyMap)
    /\ UNCHANGED mcp
    /\ PipelineUnchanged

ApiEnhanceReport ==
    /\ pc = "idle" /\ api.n < MaxApiCalls
    /\ \E report_data \in ReportData :
         api' = [n |-> api.n + 1, op |-> "enhance_report", ret |-> {},
                 report |-> enhance_report(mcp, report_data), arg |-> report_data,
                 after |-> enhance_report_argument(mcp, report_data)]
    /\ UNCHANGED mcp
    /\ PipelineUnchanged

ApiDisconnect ==
    /\ pc = "idle" /\ api.n < MaxApiCalls
    /\ mcp' = disconnect(mcp)
    /\ ApiCall("disconnect", {}, EmptyMap, EmptyMap)
    /\ PipelineUnchanged

NextClient ==
    ApiConnect \/ ApiGenerateInsights \/ ApiAnalyzeData \/ ApiEnhanceReport \/ ApiDisconnect

ClientSpec == Init /\ [][NextClient]_vars

\* ------------------------------------------------------------- stages called directly
\* SynthesisStage and AnalysisStage constructed with a collaborator of the
\* caller's choice (mcp_client=None by default) and executed directly.
Collaborators == {NoCollaborator, Injected} \cup { MCPClient_init(m) : m \in McpConfigs }

InitStage ==
    /\ config = EmptyMap
    /\ mcp \in Collaborators
    /\ pc = "idle"
    /\ source = NoSource
    /\ out = "absent"
    /\ calls = <<>>
    /\ args = NoArgs
    /\ locals = NoLocals
    /\ io = NoIo
    /\ ops = <<>>
    /\ err = NoError
    /\ result = NoResult
    /\ api = NoApi
    /\ st = NoSt
    /\ fn = NoFn

StageUnchanged ==
    UNCHANGED <<config, mcp, pc, source, out, calls, args, locals, io, ops, err, result, api, fn>>

\* SynthesisStage.execute(data)
StageSynthesis ==
    /\ \E data \in Tables, fails \in BOOLEAN, conn \in IsConnectedOutcomes(mcp),
          gen \in GenerateInsightsOutcomes(mcp) :
         LET r == SynthesisStage_execute(mcp, data, fails, conn, gen)
         IN  st' = [stage |-> "synthesis", data |-> data, input |-> EmptyMap,
                    fails |-> fails, conn |-> conn, call |-> gen,
                    raised |-> r.raised, error |-> r.error, value |-> r.value,
                    ops |-> r.ops]
    /\ StageUnchanged

\* AnalysisStage.execute(synthesized_data), on what the Synthesizer returned
StageAnalysis ==
    /\ st.stage = "synthesis" /\ ~st.raised
    /\ \E fails \in BOOLEAN, conn \in IsConnectedOutcomes(mcp),
          ana \in AnalyzeDataOutcomes(mcp) :
         LET r == AnalysisStage_execute(mcp, st.value, fails, conn, ana)
         IN  st' = [stage |-> "analysis", data |-> st.data, input |-> st.value,
                    fails |-> fails, conn |-> conn, call |-> ana,
                    raised |-> r.raised, error |-> r.error, value |-> r.value,
                    ops |-> r.ops]
    /\ StageUnchanged

NextStage == StageSynthesis \/ StageAnalysis

StageSpec == InitStage /\ [][NextStage]_vars

\* ------------------------------------------------------------- ConfigManager
\* A configuration value: a scalar (val) or a mapping (items: key -> value)
Scalar(v) == [dict |-> FALSE, val |-> v, items |-> EmptyMap]

Dict(f) == [dict |-> TRUE, val |-> "", items |-> f]

\* The mappings with keys among K and values among V
Mappings(K, V) == UNION { [S -> V] : S \in SUBSET K }

\* ConfigManager.DEFAULT_CONFIG as the class defines it
DefaultConfig ==
    [data |-> Dict([min_rows |-> Scalar("1"), csv_encoding |-> Scalar("utf-8"),
                    excel_sheet |-> Scalar("0"), json_orient |-> Scalar("records")]),
     synthesis |-> Dict([enable_ai_insights |-> Scalar("True")]),
     analysis |-> Dict([correlation_threshold |-> Scalar("0.7"),
                        outlier_method |-> Scalar("iqr"),
                        trend_analysis |-> Scalar("True")]),
     report |-> Dict([page_size |-> Scalar("letter"),
                      include_visualizations |-> Scalar("True"),
                      max_charts |-> Scalar("10")]),
     mcp |-> Dict([enabled |-> Scalar("False"), server_url |-> Scalar(""),
                   timeout |-> Scalar("30")])]

\* Mutant of merge_configs: dict.update, a user section replaces the default one
merge_configs_shallow(default, user) ==
    [k \in DOMAIN default \cup DOMAIN user |->
        IF k \in DOMAIN user THEN user[k] ELSE default[k]]

\* ConfigManager._merge_configs on two mappings: the copy of default after
\* the loop over user.items()
RECURSIVE merge_configs(_, _)
merge_configs(default, user) ==
    [k \in DOMAIN default \cup DOMAIN user |->
        IF k \in DOMAIN user
        THEN IF k \in DOMAIN default /\ default[k].dict /\ user[k].dict
             THEN Dict(merge_configs(default[k].items, user[k].items))
             ELSE user[k]
        ELSE default[k]]

\* The keys whose value in the merged mapping is the very object default
\* holds: merged = default.copy() is shallow, the loop replaces the user's keys
merge_shared(default, user) == DOMAIN default \ DOMAIN user

\* _merge_configs called with what yaml.safe_load returned: user.items()
\* raises AttributeError when that is no mapping
MergeCall(default, user) ==
    IF user.dict
    THEN [raised |-> FALSE, value |-> merge_configs(default, user.items),
          shared |-> merge_shared(default, user.items)]
    ELSE [raised |-> TRUE, value |-> EmptyMap, shared |-> {}]

\* A configuration file as load_config meets it: whether a path was given,
\* what config_file.exists() does ("exists", "missing", or "error" when the
\* stat fails with an OSError pathlib does not ignore, such as EACCES on a
\* parent directory), whether open and yaml.safe_load succeed, and the value
\* safe_load returns (None for an empty file)
ConfigFile(g, e, l, c) == [given |-> g, stat |-> e, loads |-> l, content |-> c]

UserSections == {Scalar("x")} \cup { Dict(f) : f \in Mappings({"min_rows", "extra"}, {Scalar("5")}) }

UserConfigs == { Dict(f) : f \in Mappings({"data", "mcp", "custom"}, UserSections) }

ConfigFiles ==
    {ConfigFile(FALSE, "missing", FALSE, Scalar("None")),
     ConfigFile(TRUE, "missing", FALSE, Scalar("None")),
     ConfigFile(TRUE, "error", FALSE, Scalar("None")),
     ConfigFile(TRUE, "exists", FALSE, Scalar("None"))}
    \cup { ConfigFile(TRUE, "exists", TRUE, c) :
             c \in {Scalar("None"), Scalar("text")} \cup UserConfigs }

\* What load_config returns when nothing was merged: config =
\* DEFAULT_CONFIG.copy(), whose sections are DEFAULT_CONFIG's own
load_config_fallback(defaults) ==
    [raised |-> FALSE, error |-> NoError, value |-> defaults, shared |-> DOMAIN defaults]

\* ConfigManager.load_config: exists() is called outside the try block, the
\* open, the parse and the merge inside it
load_config(defaults, file) ==
    IF ~file.given THEN load_config_fallback(defaults)
    ELSE IF file.stat = "error"
    THEN [raised |-> TRUE, error |-> Error("PermissionError", "Permission denied", ""),
          value |-> EmptyMap, shared |-> {}]
    ELSE IF file.stat = "exists" /\ file.loads
    THEN LET merged == MergeCall(defaults, file.content)
         IN  IF merged.raised THEN load_config_fallback(defaults)
             ELSE [raised |-> FALSE, error |-> NoError, value |-> merged.value,
                   shared |-> merged.shared]
    ELSE load_config_fallback(defaults)

\* The mappings _merge_configs is called with directly: three levels deep
MergeLevel1 == { Scalar(v) : v \in {"a", "b"} }
                \cup { Dict(f) : f \in Mappings({"x", "y"}, { Scalar(v) : v \in {"a", "b"} }) }

MergeLevel2 == { Scalar(v) : v \in {"a", "b"} }
                \cup { Dict(f) : f \in Mappings({"s", "t"}, MergeLevel1) }

MergeArgs == Mappings({"p"}, MergeLevel2)

NoFile == ConfigFile(FALSE, "missing", FALSE, Scalar("None"))

InitConfig ==
    /\ config = EmptyMap
    /\ mcp = MCPClient_init(EmptyMap)
    /\ pc = "idle"
    /\ source = NoSource
    /\ out = "absent"
    /\ calls = <<>>
    /\ args = NoArgs
    /\ locals = NoLocals
    /\ io = NoIo
    /\ ops = <<>>
    /\ err = NoError
    /\ result = NoResult
    /\ api = NoApi
    /\ st = NoSt
    /\ fn = [op |-> "", DEFAULT_CONFIG |-> DefaultConfig, file |-> NoFile,
             default |-> EmptyMap, user |-> EmptyMap, raised |-> FALSE,
             ret |-> EmptyMap, shared |-> {}]

FnUnchanged ==
    UNCHANGED <<config, mcp, pc, source, out, calls, args, locals, io, ops, err, result, api, st>>

\* ConfigManager.load_config(config_path)
LoadConfig ==
    /\ \E file \in ConfigFiles :
         LET r == load_config(fn.DEFAULT_CONFIG, file)
         IN  fn' = [fn EXCEPT !.op = "load_config", !.file = file,
                              !.default = fn.DEFAULT_CONFIG,
                              !.user = IF file.content.dict THEN file.content.items
                                       ELSE EmptyMap,
                              !.raised = r.raised, !.ret = r.value, !.shared = r.shared]
    /\ FnUnchanged

\* The caller assigns a nested value of the configuration it was returned,
\* config[section]['min_rows'] = 9; a section that is DEFAULT_CONFIG's own
\* object changes there as well
CallerSets ==
    /\ fn.op \in {"load_config", "set"}
    /\ ~fn.raised
    /\ \E section \in {"data", "mcp"} \cap DOMAIN fn.ret :
         /\ fn.ret[section].dict
         /\ LET changed == Dict(("min_rows" :> Scalar("9")) @@ fn.ret[section].items)
            IN  fn' = [fn EXCEPT !.op = "set",
                                 !.ret = (section :> changed) @@ fn.ret,
                                 !.DEFAULT_CONFIG =
                                     IF section \in fn.shared
                                     THEN (section :> changed) @@ fn.DEFAULT_CONFIG
                                     ELSE fn.DEFAULT_CONFIG]
    /\ FnUnchanged

NextConfig == LoadConfig \/ CallerSets

ConfigSpec == InitConfig /\ [][NextConfig]_vars

\* _merge_configs called directly: the two mappings are the caller's
InitMerge ==
    /\ config = EmptyMap
    /\ mcp = MCPClient_init(EmptyMap)
    /\ pc = "idle"
    /\ source = NoSource
    /\ out = "absent"
    /\ calls = <<>>
    /\ args = NoArgs
    /\ locals = NoLocals
    /\ io = NoIo
    /\ ops = <<>>
    /\ err = NoError
    /\ result = NoResult
    /\ api = NoApi
    /\ st = NoSt
    /\ \E default \in MergeArgs, user \in MergeArgs :
         fn = [op |-> "", DEFAULT_CONFIG |-> DefaultConfig, file |-> NoFile,
               default |-> default, user |-> user, raised |-> FALSE,
               ret |-> EmptyMap, shared |-> {}]

\* ConfigManager._merge_configs(default, user)
MergeConfigs ==
    /\ fn.op = ""
    /\ fn' = [fn EXCEPT !.op = "_merge_configs",
                        !.ret = merge_configs(fn.default, fn.user),
                        !.shared = merge_shared(fn.default, fn.user)]
    /\ FnUnchanged

NextMerge == MergeConfigs

MergeSpec == InitMerge /\ [][NextMerge]_vars

\* ------------------------------------------------------------ trend analysis
\* The elements of a sequence
Range(seq) == { seq[i] : i \in 1..Len(seq) }

\* A cell is missing, <<>>, or holds a value, <<v>>; a date cell holds the
\* ordinal of its date
Missing == <<>>

Cell(v) == <<v>>

\* A column of a file: what its cells hold ("dates", "dates_tz" for
\* timestamps with a time zone, "text" or "numbers")
FileColumn(content, cells) == [content |-> content, cells |-> cells]

RECURSIVE Ascending(_)
Ascending(n) == IF n = 0 THEN <<>> ELSE Append(Ascending(n - 1), Cell(n))

Descending(n) == [i \in 1..n |-> Cell(n + 1 - i)]

\* Files of a date column and a numeric column
DeepFiles ==
    UNION { { <<FileColumn("dates", d), FileColumn("numbers", c)>> :
                d \in {Ascending(n), Descending(n)},
                c \in [1..n -> {Missing} \cup { Cell(v) : v \in 1..MaxValue }] } :
            n \in 1..MaxTrendRows }

\* Files of two rows and many columns
WideColumns ==
    {FileColumn("dates", Ascending(2)), FileColumn("dates_tz", Descending(2)),
     FileColumn("text", Ascending(2)),
     FileColumn("numbers", <<Missing, Missing>>), FileColumn("numbers", <<Cell(1), Missing>>),
     FileColumn("numbers", Ascending(2))}

WideFiles == UNION { [1..n -> WideColumns] : n \in 0..MaxFrameCols }

\* Files of three rows whose columns are all numeric
CorrColumns ==
    {FileColumn("numbers", <<Cell(1), Cell(2), Cell(3)>>),
     FileColumn("numbers", <<Cell(3), Cell(2), Cell(1)>>),
     FileColumn("numbers", <<Cell(1), Cell(3), Cell(2)>>),
     FileColumn("numbers", <<Cell(1), Cell(1), Cell(2)>>),
     FileColumn("numbers", <<Cell(2), Cell(2), Cell(2)>>),
     FileColumn("numbers", <<Cell(1), Missing, Cell(3)>>)}

CorrFiles == UNION { [1..n -> CorrColumns] : n \in 2..MaxCorrCols }

\* The dtype pandas gives a column: read_csv is called without parse_dates
\* and leaves date text as object, read_parquet keeps the stored datetime64,
\* which for timestamps with a time zone is the dtype datetime64[ns, tz]
read_dtype(format, content) ==
    IF content = "numbers" THEN "number"
    ELSE IF content = "dates" /\ format = ".parquet" THEN "datetime64"
    ELSE IF content = "dates_tz" /\ format = ".parquet" THEN "datetime64tz"
    ELSE "object"

\* _load_csv / _load_parquet
load_frame(format, file) ==
    [i \in 1..Len(file) |-> [dtype |-> read_dtype(format, file[i].content),
                             content |-> file[i].content,
                             cells |-> file[i].cells]]

\* data.sort_values(date_col)[num_col]: the cells of a column in date order
\* (the dates of a column are distinct and none is missing)
sort_values(dates, cells) ==
    [i \in 1..Len(cells) |->
        cells[CHOOSE j \in 1..Len(dates) :
                  Cardinality({ k \in 1..Len(dates) : dates[k][1] < dates[j][1] }) = i - 1]]

\* Series.dropna()
dropna(cells) ==
    LET Present(c) == c # Missing
        kept == SelectSeq(cells, Present)
    IN  [i \in 1..Len(kept) |-> kept[i][1]]

RECURSIVE Sum(_, _)
\* The sum of f[i] for i in 1..n
Sum(f, n) == IF n = 0 THEN 0 ELSE f[n] + Sum(f, n - 1)

\* scipy.stats.linregress(np.arange(len(values)), values) in exact rationals:
\* slope = ssxym / ssxm, r = 0 when ssym = 0 and ssxym / sqrt(ssxm * ssym)
\* otherwise (num, den below are the n^2-fold of the sums of squares)
linregress(values) ==
    LET n == Len(values)
        Sx == Sum([i \in 1..n |-> i - 1], n)
        Sy == Sum(values, n)
        Sxy == Sum([i \in 1..n |-> (i - 1) * values[i]], n)
        Sxx == Sum([i \in 1..n |-> (i - 1) * (i - 1)], n)
        Syy == Sum([i \in 1..n |-> values[i] * values[i]], n)
        ssxym == n * Sxy - Sx * Sy
        ssxm == n * Sxx - Sx * Sx
        ssym == n * Syy - Sy * Sy
    IN  [slope |-> [num |-> ssxym, den |-> ssxm],
         r_squared |-> IF ssym = 0 THEN [num |-> 0, den |-> 1]
                       ELSE [num |-> ssxym * ssxym, den |-> ssxm * ssym]]

\* Mutant of trend_direction: a zero slope counts as increasing
trend_direction_nonneg(slope) ==
    IF slope.num >= 0 THEN "increasing" ELSE "decreasing"

\* 'increasing' if slope > 0 else 'decreasing' (slope.den is positive)
trend_direction(slope) ==
    IF slope.num > 0 THEN "increasing" ELSE "decreasing"

\* 'strong' if abs(r_value) > 0.7 else 'moderate' if abs(r_value) > 0.4 else
\* 'weak', on the square of r
trend_strength(r_squared) ==
    IF 100 * r_squared.num > 49 * r_squared.den THEN "strong"
    ELSE IF 100 * r_squared.num > 16 * r_squared.den THEN "moderate"
    ELSE "weak"

\* numeric_cols[:3]
TrendColumns == 3

\* if len(values) > 1
trend_values_enough(values) == Len(values) > 1

\* AnalysisStage._trend_analysis; the columns are named by their position.
\* select_dtypes(include=['datetime64']) selects the columns of dtype
\* datetime64[ns] and not those of datetime64[ns, tz]
trend_analysis(data) ==
    LET IsDate(i) == data[i].dtype = "datetime64"
        IsNumber(i) == data[i].dtype = "number"
        columns == [i \in 1..Len(data) |-> i]
        date_columns == SelectSeq(columns, IsDate)
        numeric_cols == SelectSeq(columns, IsNumber)
        first_cols == IF Len(numeric_cols) > TrendColumns
                      THEN SubSeq(numeric_cols, 1, TrendColumns) ELSE numeric_cols
        values(c) == dropna(sort_values(data[date_columns[1]].cells, data[c].cells))
        entry(c) == LET reg == linregress(values(c))
                    IN  [slope |-> reg.slope,
                         direction |-> trend_direction(reg.slope),
                         r_squared |-> reg.r_squared,
                         strength |-> trend_strength(reg.r_squared)]
    IN  [temporal_trends |->
            IF Len(date_columns) > 0 /\ Len(numeric_cols) > 0
            THEN [c \in { c \in Range(first_cols) : trend_values_enough(values(c)) } |-> entry(c)]
            ELSE EmptyMap,
         growth_rates |-> EmptyMap]

\* Pearson correlation of two columns as DataFrame.corr computes it: over the
\* rows where both cells are present, NaN when the product of the two sums of
\* squares is 0; r = num / sqrt(den2)
pearson(a, b) ==
    LET Both(k) == a[k] # Missing /\ b[k] # Missing
        rows == SelectSeq([k \in 1..Len(a) |-> k], Both)
        n == Len(rows)
        Sx == Sum([i \in 1..n |-> a[rows[i]][1]], n)
        Sy == Sum([i \in 1..n |-> b[rows[i]][1]], n)
        Sxy == Sum([i \in 1..n |-> a[rows[i]][1] * b[rows[i]][1]], n)
        Sxx == Sum([i \in 1..n |-> a[rows[i]][1] * a[rows[i]][1]], n)
        Syy == Sum([i \in 1..n |-> b[rows[i]][1] * b[rows[i]][1]], n)
        ssx == n * Sxx - Sx * Sx
        ssy == n * Syy - Sy * Sy
    IN  IF ssx * ssy = 0 THEN [nan |-> TRUE, num |-> 0, den2 |-> 1]
        ELSE [nan |-> FALSE, num |-> n * Sxy - Sx * Sy, den2 |-> ssx * ssy]

\* Mutant of strong_correlation: the threshold is 0.4
strong_correlation_loose(r) == ~r.nan /\ 100 * r.num * r.num > 16 * r.den2

\* abs(corr_value) > 0.7, false for NaN
strong_correlation(r) == ~r.nan /\ 100 * r.num * r.num > 49 * r.den2

RECURSIVE PairSeq(_)
\* The pairs of a set in the order of the loops over i and j > i
PairSeq(S) ==
    IF S = {} THEN <<>>
    ELSE LET first == CHOOSE p \in S :
                 \A q \in S : p[1] < q[1] \/ (p[1] = q[1] /\ p[2] <= q[2])
         IN  <<first>> \o PairSeq(S \ {first})

\* Mutant of correlation_skipped: only a frame with no numeric column is skipped
correlation_skipped_none(numeric_cols) == Len(numeric_cols) < 1

\* if numeric_data.shape[1] < 2
correlation_skipped(numeric_cols) == Len(numeric_cols) < 2

\* AnalysisStage._correlation_analysis; the columns are named by their position
correlation_analysis(data) ==
    LET IsNumber(i) == data[i].dtype = "number"
        numeric_cols == SelectSeq([i \in 1..Len(data) |-> i], IsNumber)
        corr_matrix == [p \in Range(numeric_cols) \X Range(numeric_cols) |->
                           pearson(data[p[1]].cells, data[p[2]].cells)]
        strong == { p \in DOMAIN corr_matrix : p[1] < p[2] /\ strong_correlation(corr_matrix[p]) }
        pairs == PairSeq(strong)
    IN  IF correlation_skipped(numeric_cols)
        THEN [correlations |-> EmptyMap, strong_correlations |-> <<>>]
        ELSE [correlation_matrix |-> corr_matrix,
              strong_correlations |->
                  [i \in 1..Len(pairs) |->
                      [variable1 |-> pairs[i][1], variable2 |-> pairs[i][2],
                       correlation |-> corr_matrix[pairs[i]],
                       strength |-> IF corr_matrix[pairs[i]].num > 0
                                    THEN "strong positive" ELSE "strong negative"]]]

\* pd.to_datetime(data[col]): text that is no date raises ValueError; numbers
\* are taken as nanoseconds since the epoch, dates and date text as dates
to_datetime(column) ==
    [raised |-> column.content = "text",
     unit |-> IF column.content = "numbers" THEN "ns" ELSE "day",
     cells |-> column.cells]

\* date_data.min() / date_data.max(): missing values are skipped, NaT
\* (Missing) when no value is left
date_min(cells) ==
    LET values == Range(dropna(cells))
    IN  IF values = {} THEN Missing
        ELSE Cell(CHOOSE v \in values : \A w \in values : v <= w)

date_max(cells) ==
    LET values == Range(dropna(cells))
    IN  IF values = {} THEN Missing
        ELSE Cell(CHOOSE v \in values : \A w \in values : v >= w)

\* SynthesisStage._temporal_aggregations; the columns are named by their
\* position
temporal_aggregations(data) ==
    LET columns == [i \in 1..Len(data) |-> i]
        IsDate(i) == data[i].dtype = "datetime64"
        Converts(i) == ~to_datetime(data[i]).raised
        declared == SelectSeq(columns, IsDate)
        detected == SelectSeq(columns, Converts)
        date_columns == IF Len(declared) > 0 THEN declared
                        ELSE IF Len(detected) > 0 THEN <<detected[1]>> ELSE <<>>
    IN  IF Len(date_columns) > 0
        THEN LET date_data == to_datetime(data[date_columns[1]])
             IN  [date_range |-> [unit |-> date_data.unit,
                                  start |-> date_min(date_data.cells),
                                  end |-> date_max(date_data.cells)]]
        ELSE EmptyMap

NoTrends == [temporal_trends |-> EmptyMap, growth_rates |-> EmptyMap]

InitTrend ==
    /\ config = EmptyMap
    /\ mcp = MCPClient_init(EmptyMap)
    /\ pc = "idle"
    /\ source = NoSource
    /\ out = "absent"
    /\ calls = <<>>
    /\ args = NoArgs
    /\ locals = NoLocals
    /\ io = NoIo
    /\ ops = <<>>
    /\ err = NoError
    /\ result = NoResult
    /\ api = NoApi
    /\ st = NoSt
    /\ \E format \in {".csv", ".parquet"}, file \in DeepFiles \cup WideFiles \cup CorrFiles :
         fn = [op |-> "", format |-> format, file |-> file, data |-> <<>>,
               trends |-> NoTrends, correlation |-> EmptyMap, temporal |-> EmptyMap]

\* DataIngestionStage._load_csv / _load_parquet
LoadFrame ==
    /\ fn.op = ""
    /\ fn' = [fn EXCEPT !.op = "load", !.data = load_frame(fn.format, fn.file)]
    /\ FnUnchanged

\* AnalysisStage._trend_analysis(data)
TrendAnalysis ==
    /\ fn.op = "load"
    /\ fn' = [fn EXCEPT !.op = "_trend_analysis", !.trends = trend_analysis(fn.data)]
    /\ FnUnchanged

\* AnalysisStage._correlation_analysis(data)
CorrelationAnalysis ==
    /\ fn.op = "load"
    /\ fn' = [fn EXCEPT !.op = "_correlation_analysis",
                        !.correlation = correlation_analysis(fn.data)]
    /\ FnUnchanged

\* SynthesisStage._temporal_aggregations(data)
TemporalAggregations ==
    /\ fn.op = "load"
    /\ fn' = [fn EXCEPT !.op = "_temporal_aggregations",
                        !.temporal = temporal_aggregations(fn.data)]
    /\ FnUnchanged

NextTrend == LoadFrame \/ TrendAnalysis \/ CorrelationAnalysis \/ TemporalAggregations

TrendSpec == InitTrend /\ [][NextTrend]_vars

\* --------------------------------------------------------------- data quality
\* Tables with cell contents: a sequence of columns of equal length
QualityCells == {Missing, Cell(1), Cell(2)}

QualityFrames ==
    UNION { [1..c -> { [dtype |-> "number", cells |-> cells] :
                         cells \in [1..r -> QualityCells] }] :
            r \in 0..MaxQualityRows, c \in 0..MaxQualityCols }

\* len(data)
frame_rows(data) == IF Len(data) = 0 THEN 0 ELSE Len(data[1].cells)

\* Row k of a frame
frame_row(data, k) == [c \in 1..Len(data) |-> data[c].cells[k]]

\* Mutant of duplicated: keep=False, every occurrence of a repeated row
duplicated_all(data) ==
    { k \in 1..frame_rows(data) :
        \E j \in 1..frame_rows(data) : j # k /\ frame_row(data, j) = frame_row(data, k) }

\* DataFrame.duplicated(): the rows equal to an earlier row (missing cells
\* compare equal); none for an empty frame
duplicated(data) ==
    { k \in 1..frame_rows(data) :
        \E j \in 1..(k - 1) : frame_row(data, j) = frame_row(data, k) }

\* data.isna().sum().sum()
isna_sum(data) ==
    Cardinality({ p \in (1..Len(data)) \X (1..frame_rows(data)) :
                    data[p[1]].cells[p[2]] = Missing })

\* SynthesisStage._assess_data_quality on a table with cell contents
frame_quality(data) ==
    LET total_cells == frame_rows(data) * Len(data)
        missing_cells == isna_sum(data)
    IN  [completeness |-> [num |-> (total_cells - missing_cells) * 100, den |-> total_cells],
         missing_values |-> missing_cells,
         duplicate_rows |-> Cardinality(duplicated(data)),
         total_cells |-> total_cells]

InitQuality ==
    /\ config = EmptyMap
    /\ mcp = MCPClient_init(EmptyMap)
    /\ pc = "idle"
    /\ source = NoSource
    /\ out = "absent"
    /\ calls = <<>>
    /\ args = NoArgs
    /\ locals = NoLocals
    /\ io = NoIo
    /\ ops = <<>>
    /\ err = NoError
    /\ result = NoResult
    /\ api = NoApi
    /\ st = NoSt
    /\ \E data \in QualityFrames :
         fn = [op |-> "", data |-> data, quality |-> EmptyMap]

\* SynthesisStage._assess_data_quality(data)
AssessDataQuality ==
    /\ fn.op = ""
    /\ fn' = [fn EXCEPT !.op = "_assess_data_quality", !.quality = frame_quality(fn.data)]
    /\ FnUnchanged

NextQuality == AssessDataQuality

QualitySpec == InitQuality /\ [][NextQuality]_vars

\* ---------------------------------------------------------- outlier detection
\* The pipeline and the stage objects at rest while a routine is called directly
FnInit ==
    /\ config = EmptyMap
    /\ mcp = MCPClient_init(EmptyMap)
    /\ pc = "idle"
    /\ source = NoSource
    /\ out = "absent"
    /\ calls = <<>>
    /\ args = NoArgs
    /\ locals = NoLocals
    /\ io = NoIo
    /\ ops = <<>>
    /\ err = NoError
    /\ result = NoResult
    /\ api = NoApi
    /\ st = NoSt

\* The cells of a numeric column given to _detect_outliers
OutlierCells == {Missing, Cell(1), Cell(2), Cell(9)}

OutlierColumns == UNION { [1..n -> OutlierCells] : n \in 0..MaxOutlierRows }

\* The values of a sequence in ascending order
sorted(values) ==
    [i \in 1..Len(values) |->
        CHOOSE v \in Range(values) :
            /\ Cardinality({ k \in 1..Len(values) : values[k] < v }) < i
            /\ i <= Cardinality({ k \in 1..Len(values) : values[k] <= v })]

\* Series.quantile(quarters / 4) with linear interpolation, in quarters of a
\* unit: the value at position (n - 1) * quarters / 4 of the sorted values
quantile(values, quarters) ==
    LET s == sorted(values)
        h == (Len(values) - 1) * quarters
        lo == (h \div 4) + 1
        frac == h % 4
    IN  IF frac = 0 THEN 4 * s[lo] ELSE (4 - frac) * s[lo] + frac * s[lo + 1]

\* Mutant of outside_bounds: values on a bound count as outliers
outside_bounds_closed(v, lower, upper) == 8 * v <= lower \/ 8 * v >= upper

\* (col_data < lower_bound) | (col_data > upper_bound), bounds in eighths
outside_bounds(v, lower, upper) == 8 * v < lower \/ 8 * v > upper

\* The entry _detect_outliers makes for one column; q1, q3 are in quarters, the
\* bounds in eighths. With no value left after dropna the quantiles, the
\* bounds and the percentage are NaN (nan) and the count is 0.
column_outliers(cells) ==
    LET col_data == dropna(cells)
        q1 == quantile(col_data, 1)
        q3 == quantile(col_data, 3)
        iqr == q3 - q1
        lower_bound == 2 * q1 - 3 * iqr
        upper_bound == 2 * q3 + 3 * iqr
        outlier_count == Cardinality({ k \in 1..Len(col_data) :
                             outside_bounds(col_data[k], lower_bound, upper_bound) })
    IN  IF Len(col_data) = 0
        THEN [nan |-> TRUE, count |-> 0, percentage |-> [num |-> 0, den |-> 0],
              bounds |-> [lower |-> 0, upper |-> 0]]
        ELSE [nan |-> FALSE, count |-> outlier_count,
              percentage |-> [num |-> outlier_count * 100, den |-> Len(col_data)],
              bounds |-> [lower |-> lower_bound, upper |-> upper_bound]]

InitOutlier ==
    /\ FnInit
    /\ \E cells \in OutlierColumns :
         fn = [op |-> "", cells |-> cells, outliers |-> EmptyMap]

\* AnalysisStage._detect_outliers on a frame of one numeric column
DetectOutliers ==
    /\ fn.op = ""
    /\ fn' = [fn EXCEPT !.op = "_detect_outliers", !.outliers = column_outliers(fn.cells)]
    /\ FnUnchanged

NextOutlier == DetectOutliers

OutlierSpec == InitOutlier /\ [][NextOutlier]_vars

\* -------------------------------------------------------- statistical analysis
\* Numeric columns by label: one with a defined skewness, a zero-variance one
\* and one whose values are all missing. A frame may carry a label twice.
StatColumns ==
    { [name |-> name, cells |-> cells] :
        name \in {"a", "b"},
        cells \in {<<Cell(1), Cell(2), Cell(2)>>, <<Cell(1), Cell(1), Cell(1)>>,
                   <<Missing, Missing, Missing>>} }

StatFrames == UNION { [1..n -> StatColumns] : n \in 0..MaxStatCols }

\* The entry _statistical_analysis makes for one column: count, the mean as
\* a fraction (NaN when den = 0), n^2 times the variance numerator, and
\* whether skewness and kurtosis are numbers or NaN (the moments of a column
\* with no value or with zero variance are undefined)
descriptive_stats(column) ==
    LET col_data == dropna(column.cells)
        n == Len(col_data)
        Sy == Sum(col_data, n)
        Syy == Sum([i \in 1..n |-> col_data[i] * col_data[i]], n)
        spread == n * Syy - Sy * Sy
    IN  [count |-> n,
         mean |-> [num |-> Sy, den |-> n],
         spread |-> spread,
         skewness |-> IF n = 0 \/ spread = 0 THEN "nan" ELSE "number",
         kurtosis |-> IF n = 0 \/ spread = 0 THEN "nan" ELSE "number"]

\* data[col] for a label the frame carries twice is a DataFrame, its mean a
\* Series of two values, and float() of that Series raises TypeError
float_raises(data, i) ==
    \E j \in 1..Len(data) : j # i /\ data[j].name = data[i].name

RECURSIVE statistical_loop(_, _, _)
\* The loop of _statistical_analysis from column i on: no statement of the
\* loop body is inside a try, the first exception leaves the routine
statistical_loop(data, i, stats) ==
    IF i > Len(data) THEN [raised |-> FALSE, error |-> NoError, value |-> stats]
    ELSE IF float_raises(data, i)
    THEN [raised |-> TRUE,
          error |-> Error("TypeError", "cannot convert the series to float", "analysis"),
          value |-> EmptyMap]
    ELSE statistical_loop(data, i + 1,
                          (data[i].name :> descriptive_stats(data[i])) @@ stats)

\* AnalysisStage._statistical_analysis: the descriptive_stats of the result
statistical_analysis(data) == statistical_loop(data, 1, EmptyMap)

InitStat ==
    /\ FnInit
    /\ \E data \in StatFrames :
         fn = [op |-> "", data |-> data, raised |-> FALSE, error |-> NoError,
               stats |-> EmptyMap]

\* AnalysisStage._statistical_analysis(data), as execute calls it (line 52)
StatisticalAnalysis ==
    /\ fn.op = ""
    /\ LET r == statistical_analysis(fn.data)
       IN  fn' = [fn EXCEPT !.op = "_statistical_analysis", !.raised = r.raised,
                            !.error = r.error, !.stats = r.value]
    /\ FnUnchanged

NextStat == StatisticalAnalysis

StatSpec == InitStat /\ [][NextStat]_vars

\* ===================================================================== claims
StageOrder == <<"ingestion", "synthesis", "analysis", "report_generation">>

Running == pc # "idle"

\* The state right after the Loader's execute has been called by run
AfterIngestion == calls = <<"ingestion">> /\ pc \in {"stage2", "except"}

\* The suffixes that are one of .csv, .xlsx, .xls, .json, .parquet when
\* compared case-insensitively, and the reader each belongs to
SupportedSpellings ==
    (".csv" :> "_load_csv") @@ (".CSV" :> "_load_csv") @@ (".xlsx" :> "_load_excel")
    @@ (".XLS" :> "_load_excel") @@ (".json" :> "_load_json")
    @@ (".Parquet" :> "_load_parquet")

Supported(src) == src.suffix \in DOMAIN SupportedSpellings

\* The configured min_rows, 1 when not configured
ConfiguredMinRows ==
    IF "data" \in DOMAIN config /\ "min_rows" \in DOMAIN config["data"]
    THEN config["data"]["min_rows"]
    ELSE 1

CollaboratorEnabled ==
    "mcp" \in DOMAIN config /\ "enabled" \in DOMAIN config["mcp"] /\ config["mcp"]["enabled"]

\* C1: in every invocation of run the stages execute in the order ingestion,
\* synthesis, analysis, report generation, each at most once; a stage begins
\* only after the previous stage returned without raising, and is called
\* with the previous stage's output.
C1_StageOrder ==
    /\ Len(calls) <= 4
    /\ \A i \in 1..Len(calls) : calls[i] = StageOrder[i]
    /\ (pc = "stage1" => calls = <<>>)
    /\ (pc = "stage2" => Len(calls) = 1 /\ err = NoError)
    /\ (pc = "stage3" => Len(calls) = 2 /\ err = NoError)
    /\ (pc = "stage4" => Len(calls) = 3 /\ err = NoError)
    /\ (pc = "return" => Len(calls) = 4 /\ err = NoError)
    /\ (Running /\ Len(calls) >= 2 => args.synthesis = locals.raw_data
                                      /\ locals.raw_data = source.table)
    /\ (Running /\ Len(calls) >= 3 => args.analysis = locals.synthesized_data
                                      /\ locals.synthesized_data["raw_data"] = locals.raw_data)
    /\ (Running /\ Len(calls) >= 4 =>
            /\ args.report_generation = locals.analysis_results
            /\ locals.analysis_results["synthesized_data"] = locals.synthesized_data)

C1_Witness ==
    pc = "return" /\ calls = StageOrder /\ locals.raw_data.rows = 2

\* C2: when a stage raises, run raises that same error, unchanged, to its
\* caller; the stage that raised is the last one executed; no report path is
\* returned. A run that returns has executed all four stages without error.
C2_ErrorPropagates ==
    /\ (pc = "except" => err # NoError /\ calls # <<>> /\ calls[Len(calls)] = err.stage)
    /\ (pc = "idle" /\ err # NoError =>
            /\ result.kind = "raised"
            /\ result.error = err
            /\ result.path = ""
            /\ calls[Len(calls)] = err.stage)
    /\ (result.kind = "raised" => err # NoError /\ result.error = err)
    /\ (result.kind = "returned" => err = NoError /\ calls = StageOrder)

C2_Witness ==
    pc = "idle" /\ result.kind = "raised" /\ result.error.stage = "analysis"

\* C3 (as claimed): whenever run fails, in whatever stage, the invocation
\* has left no report file at the output location.
C3_NoPartialReport ==
    (pc = "except" \/ result.kind = "raised") => out \in {"absent", "stale"}

\* C4: on a source that does not exist the Loader fails with
\* FileNotFoundError whatever the extension, and invokes no reader and no
\* validation.
C4_MissingSource ==
    (AfterIngestion /\ ~source.exists) =>
        /\ pc = "except"
        /\ err.type = "FileNotFoundError"
        /\ io.readers = <<>>
        /\ ~io.validated

C4_Witness ==
    AfterIngestion /\ ~source.exists /\ source.suffix = ".TXT" /\ pc = "except"

Loaded == AfterIngestion /\ source.exists /\ Supported(source) /\ source.parses

\* C6: a loaded table with zero rows fails with the ValueError 'Loaded data
\* is empty' for every configured min_rows, also 0 or below: emptiness is
\* checked before the minimum row count.
C6_EmptyTable ==
    (Loaded /\ source.table.rows = 0) =>
        /\ pc = "except"
        /\ err.type = "ValueError" /\ err.msg = "Loaded data is empty"

C6_Witness ==
    Loaded /\ source.table.rows = 0 /\ ConfiguredMinRows <= 0 /\ pc = "except"

\* C7: a non-empty loaded table fails with the ValueError 'minimum
\* required' when its row count is below min_rows (1 by default) and is
\* returned when its row count is min_rows or more.
C7_MinRows ==
    (Loaded /\ source.table.rows > 0 /\ source.table.cols > 0) =>
        IF source.table.rows < ConfiguredMinRows
        THEN /\ pc = "except"
             /\ err.type = "ValueError" /\ err.msg = "minimum required"
        ELSE /\ pc = "stage2"
             /\ err = NoError
             /\ locals.raw_data = source.table

C7_Witness ==
    /\ Loaded /\ source.table.rows = 2 /\ source.table.cols > 0
    /\ ConfiguredMinRows = 2 /\ pc = "stage2"

\* C8: with the collaborator disabled, in every run the only collaborator
\* operation performed is the connectivity query, ai_insights and
\* ai_analysis are absent, the recommendations are empty, and no error
\* comes from the collaborator.
C8_Disabled ==
    ~CollaboratorEnabled =>
        /\ \A i \in 1..Len(ops) : ops[i] = "is_connected"
        /\ "ai_insights" \notin DOMAIN locals.synthesized_data
        /\ "ai_analysis" \notin DOMAIN locals.analysis_results
        /\ ("recommendations" \in DOMAIN locals.analysis_results =>
                locals.analysis_results["recommendations"] = <<>>)
        /\ err.type # "CollaboratorError"

C8_Witness ==
    /\ ~CollaboratorEnabled /\ pc = "return"
    /\ ops = <<"is_connected", "is_connected">>
    /\ locals.analysis_results["recommendations"] = <<>>

\* C9: whatever the configuration and whatever collaborator methods have
\* been called, is_connected() is false and generate_insights and
\* analyze_data return an empty mapping.
C9_Stub ==
    /\ ~is_connected(mcp)
    /\ (api.op \in {"generate_insights", "analyze_data"} => api.ret = {})

C9_Witness ==
    /\ api.n = 2 /\ api.op = "generate_insights"
    /\ mcp.enabled /\ mcp.server_url # ""

\* C10: when the collaborator reports itself connected and its
\* generate_insights or analyze_data fails, the stage does not raise, the AI
\* result is the empty mapping and the stage's other results are all there.
C10_CollaboratorFailure ==
    (st.stage # "" /\ ~st.fails /\ ~st.conn.raised /\ st.conn.value /\ st.call.raised) =>
        /\ ~st.raised
        /\ IF st.stage = "synthesis"
           THEN /\ DOMAIN st.value =
                     {"raw_data", "summary", "data_quality", "metadata", "ai_insights"}
                /\ st.value["ai_insights"] = {}
                /\ st.value["raw_data"] = st.data
                /\ st.value["summary"].total_rows = st.data.rows
                /\ st.value["data_quality"].missing_values = st.data.missing
           ELSE /\ DOMAIN st.value =
                     {"synthesized_data", "outlier_detection", "key_findings",
                      "recommendations", "ai_analysis"}
                /\ st.value["ai_analysis"] = {}
                /\ st.value["synthesized_data"] = st.input
                /\ st.value["outlier_detection"].high = st.data.outliers
                /\ Len(st.value["key_findings"]) = 2

C10_Witness ==
    /\ st.stage = "analysis" /\ ~st.fails /\ ~st.conn.raised /\ st.conn.value
    /\ st.call.raised /\ ~st.raised /\ st.data.rows = 2

\* C11 (as claimed): when no collaborator is connected, the Analyzer's
\* recommendations contain the missing-data recommendation iff completeness
\* is below 90, and the outlier-review recommendation iff some numeric
\* column has an outlier percentage above 5.
C11_RuleBasedRecommendations ==
    (st.stage = "analysis" /\ ~st.raised /\ ~(~st.conn.raised /\ st.conn.value)) =>
        LET recs == Range(st.value["recommendations"])
            total == st.data.rows * st.data.cols
        IN  /\ ("address missing data" \in recs) <=>
                    (total > 0 /\ (total - st.data.missing) * 100 < 90 * total)
            /\ ("review outliers" \in recs) <=> st.data.outliers

\* The claimed relation between a default mapping d, a user mapping u and
\* their merge m
RECURSIVE MergedOK(_, _, _)
MergedOK(d, u, m) ==
    /\ DOMAIN m = DOMAIN d \cup DOMAIN u
    /\ \A k \in DOMAIN m :
         IF k \notin DOMAIN u THEN m[k] = d[k]
         ELSE IF k \notin DOMAIN d THEN m[k] = u[k]
         ELSE IF d[k].dict /\ u[k].dict
              THEN m[k].dict /\ MergedOK(d[k].items, u[k].items, m[k].items)
              ELSE m[k] = u[k]

\* load_config read a file whose content is a mapping
LoadedMapping ==
    /\ fn.op = "load_config"
    /\ fn.file.given /\ fn.file.stat = "exists" /\ fn.file.loads
    /\ fn.file.content.dict

\* C12: the merge of a user mapping over a default mapping is a key-by-key
\* deep merge: two mappings under one key are merged recursively, otherwise
\* the user value overrides, a default key the user lacks keeps its default
\* and a user key the defaults lack passes through; so does load_config of a
\* file holding a mapping.
C12_DeepMerge ==
    (fn.op = "_merge_configs" \/ LoadedMapping) =>
        MergedOK(fn.default, fn.user, fn.ret)

\* C12 witness: a merge two levels deep where the inner mappings each hold a
\* key the other lacks, and a user scalar overrides a default one
C12_Witness ==
    /\ fn.op = "_merge_configs"
    /\ "p" \in DOMAIN fn.default /\ "p" \in DOMAIN fn.user
    /\ fn.default["p"].dict /\ fn.user["p"].dict
    /\ LET d == fn.default["p"].items
           u == fn.user["p"].items
       IN  /\ "s" \in DOMAIN d /\ "s" \in DOMAIN u
           /\ d["s"].dict /\ u["s"].dict
           /\ DOMAIN d["s"].items = {"x"}
           /\ DOMAIN u["s"].items = {"y"}
           /\ "t" \in DOMAIN d /\ "t" \in DOMAIN u
           /\ d["t"] = Scalar("a") /\ u["t"] = Scalar("b")
           /\ DOMAIN fn.ret["p"].items["s"].items = {"x", "y"}

\* The sections of the default configuration
Sections == {"data", "synthesis", "analysis", "report", "mcp"}

\* C13 (as claimed): load_config never raises, and with no path, a missing
\* path, a file that cannot be read or parsed, or content that is no mapping
\* it returns a configuration equal to DEFAULT_CONFIG with its five sections.
C13_LoadConfigFallback ==
    (fn.op = "load_config") =>
        /\ ~fn.raised
        /\ ~LoadedMapping =>
             /\ fn.ret = fn.DEFAULT_CONFIG
             /\ Sections \subseteq DOMAIN fn.ret

\* The CSV file date,sales with sales rising by equal steps over three dates
\* (100, 200, 300 in units of 100)
SalesCsv == <<FileColumn("dates", Ascending(3)), FileColumn("numbers", Ascending(3))>>

\* C14 (as claimed): for the table loaded from the CSV file date,sales whose
\* sales rise with the date, the trend analysis has an entry for sales with
\* direction 'increasing' and R squared 1.
C14_CsvTrend ==
    (fn.op = "_trend_analysis" /\ fn.format = ".csv" /\ fn.file = SalesCsv) =>
        /\ 2 \in DOMAIN fn.trends.temporal_trends
        /\ fn.trends.temporal_trends[2].direction = "increasing"
        /\ fn.trends.temporal_trends[2].r_squared.num
               = fn.trends.temporal_trends[2].r_squared.den

\* The dtypes of temporal columns: timestamps without and with a time zone
TemporalDtypes == {"datetime64", "datetime64tz"}

\* The frame has a column of a temporal dtype
HasTemporal(data) == \E i \in 1..Len(data) : data[i].dtype \in TemporalDtypes

\* The number of non-missing cells of a column
NonMissing(column) ==
    Cardinality({ k \in 1..Len(column.cells) : column.cells[k] # Missing })

\* The position of column c among the numeric columns, in column order
NumericRank(data, c) ==
    Cardinality({ j \in 1..c : data[j].dtype = "number" })

\* C15 (as claimed): the trend result has an entry for a column iff the table has a
\* temporal column, the column is numeric and among the first 3 numeric
\* columns, and it has at least 2 non-missing values; with no temporal column
\* the trend result is empty.
C15_TrendEntries ==
    (fn.op = "_trend_analysis") =>
        /\ DOMAIN fn.trends.temporal_trends \subseteq 1..Len(fn.data)
        /\ \A c \in 1..Len(fn.data) :
             (c \in DOMAIN fn.trends.temporal_trends) <=>
                 /\ HasTemporal(fn.data)
                 /\ fn.data[c].dtype = "number"
                 /\ NumericRank(fn.data, c) <= 3
                 /\ NonMissing(fn.data[c]) >= 2
        /\ ~HasTemporal(fn.data) => fn.trends = NoTrends

\* C16: in every trend entry, direction is 'increasing' iff the slope is
\* above 0 and 'decreasing' otherwise; strength is 'strong' iff |r| > 0.7,
\* 'moderate' iff 0.4 < |r| <= 0.7 and 'weak' otherwise (|r| > t iff
\* r squared > t squared).
C16_DirectionStrength ==
    (fn.op = "_trend_analysis") =>
        \A c \in DOMAIN fn.trends.temporal_trends :
            LET e == fn.trends.temporal_trends[c]
                r2 == e.r_squared
            IN  /\ e.slope.den > 0 /\ r2.den > 0
                /\ e.direction = "increasing" <=> e.slope.num > 0
                /\ e.direction = "decreasing" <=> e.slope.num <= 0
                /\ e.strength = "strong" <=> 100 * r2.num > 49 * r2.den
                /\ e.strength = "moderate" <=>
                       (100 * r2.num > 16 * r2.den /\ 100 * r2.num <= 49 * r2.den)
                /\ e.strength = "weak" <=> 100 * r2.num <= 16 * r2.den

\* C16 witness: a falling series whose fit is moderate
C16_Witness ==
    /\ fn.op = "_trend_analysis"
    /\ \E c \in DOMAIN fn.trends.temporal_trends :
         /\ fn.trends.temporal_trends[c].direction = "decreasing"
         /\ fn.trends.temporal_trends[c].slope.num < 0
         /\ fn.trends.temporal_trends[c].strength = "moderate"

\* The number of numeric columns of a frame
NumericCount(data) == Cardinality({ i \in 1..Len(data) : data[i].dtype = "number" })

\* C17: with fewer than 2 numeric columns the correlation result is empty:
\* it holds no correlation matrix entry and no strong pair.
C17_FewNumericColumns ==
    (fn.op = "_correlation_analysis" /\ NumericCount(fn.data) < 2) =>
        /\ fn.correlation.strong_correlations = <<>>
        /\ \A key \in DOMAIN fn.correlation \ {"strong_correlations"} :
             DOMAIN fn.correlation[key] = {}

\* C17 witness: a frame whose only numeric column holds 2 values, next to a
\* temporal column
C17_Witness ==
    /\ fn.op = "_correlation_analysis"
    /\ NumericCount(fn.data) = 1
    /\ HasTemporal(fn.data)
    /\ \E c \in 1..Len(fn.data) :
         fn.data[c].dtype = "number" /\ NonMissing(fn.data[c]) = 2
    /\ fn.correlation.strong_correlations = <<>>

\* The Synthesizer, called on a table, returned its synthesized mapping
SynthesizerReturned == st.stage = "synthesis" /\ ~st.raised

\* C18 (as claimed): completeness is 100 for every table with no missing
\* cell, whatever its row count and column count.
C18_FullCompleteness ==
    (SynthesizerReturned /\ st.data.missing = 0) =>
        LET completeness == st.value["data_quality"].completeness
        IN  completeness.den > 0 /\ completeness.num = 100 * completeness.den

\* The distinct rows of a frame
DistinctRows(data) == { frame_row(data, k) : k \in 1..frame_rows(data) }

\* The missing cells of a frame, column by column
MissingCells(data) ==
    Sum([c \in 1..Len(data) |-> frame_rows(data) - NonMissing(data[c])], Len(data))

\* C19 (as claimed): for every table total_cells = rows * columns,
\* missing_values is the number of missing cells and lies between 0 and
\* total_cells, completeness = (total_cells - missing_values) / total_cells
\* * 100 is a number in [0, 100], and it is below 100 iff a cell is missing.
C19_DataQuality ==
    (fn.op = "_assess_data_quality") =>
        LET quality == fn.quality
            completeness == quality.completeness
        IN  /\ quality.total_cells = frame_rows(fn.data) * Len(fn.data)
            /\ quality.missing_values = MissingCells(fn.data)
            /\ 0 <= quality.missing_values /\ quality.missing_values <= quality.total_cells
            /\ completeness.den > 0
            /\ completeness.num * quality.total_cells
                   = (quality.total_cells - quality.missing_values) * 100 * completeness.den
            /\ 0 <= completeness.num /\ completeness.num <= 100 * completeness.den
            /\ (completeness.num < 100 * completeness.den) <=> (MissingCells(fn.data) > 0)

\* C20: duplicate_rows is the number of rows identical in every column to an
\* earlier row: total rows minus the number of distinct rows.
C20_DuplicateRows ==
    (fn.op = "_assess_data_quality") =>
        fn.quality.duplicate_rows
            = frame_rows(fn.data) - Cardinality(DistinctRows(fn.data))

\* C20 witness: the table [[1,2],[1,2],[2,1]] has 1 duplicate row
C20_Witness ==
    /\ fn.op = "_assess_data_quality"
    /\ Len(fn.data) = 2 /\ frame_rows(fn.data) = 3
    /\ frame_row(fn.data, 1) = <<Cell(1), Cell(2)>>
    /\ frame_row(fn.data, 2) = <<Cell(1), Cell(2)>>
    /\ frame_row(fn.data, 3) = <<Cell(2), Cell(1)>>
    /\ fn.quality.duplicate_rows = 1

\* The non-missing values of the column given to _detect_outliers
OutlierValues == dropna(fn.cells)

\* C21: for a numeric column with at least 4 non-missing values, lower =
\* Q1 - 1.5 IQR <= Q1 <= Q3 <= upper = Q3 + 1.5 IQR, the count is the number
\* of non-missing values strictly outside [lower, upper] and the percentage
\* is count / non-missing count * 100 (Q1, Q3 in quarters, bounds in eighths).
C21_OutlierBounds ==
    (fn.op = "_detect_outliers" /\ Len(OutlierValues) >= 4) =>
        LET Q1 == quantile(OutlierValues, 1)
            Q3 == quantile(OutlierValues, 3)
            lower == fn.outliers.bounds.lower
            upper == fn.outliers.bounds.upper
            strictly_outside == { k \in 1..Len(OutlierValues) :
                                    8 * OutlierValues[k] < lower \/ 8 * OutlierValues[k] > upper }
        IN  /\ ~fn.outliers.nan
            /\ 2 * lower = 4 * Q1 - 3 * (2 * Q3 - 2 * Q1)
            /\ 2 * upper = 4 * Q3 + 3 * (2 * Q3 - 2 * Q1)
            /\ lower <= 2 * Q1 /\ Q1 <= Q3 /\ 2 * Q3 <= upper
            /\ fn.outliers.count = Cardinality(strictly_outside)
            /\ fn.outliers.percentage.num * Len(OutlierValues)
                   = fn.outliers.count * 100 * fn.outliers.percentage.den
            /\ fn.outliers.percentage.den > 0

\* C21 witness: the column 1, 1, 1, 9 with a missing cell: Q1 = 1, Q3 = 3,
\* the bounds are -2 and 6 and the value 9 is the one outlier, 25 percent
C21_Witness ==
    /\ fn.op = "_detect_outliers"
    /\ fn.cells = <<Cell(1), Missing, Cell(1), Cell(1), Cell(9)>>
    /\ fn.outliers.bounds = [lower |-> -16, upper |-> 48]
    /\ fn.outliers.count = 1
    /\ fn.outliers.percentage = [num |-> 100, den |-> 4]

\* C22: when the collaborator is not connected, enhance_report returns its
\* argument unchanged: the returned report data equals the input and the
\* input is as it was before the call.
C22_EnhanceIdentity ==
    (api.op = "enhance_report" /\ ~mcp.connected) =>
        /\ api.report = api.arg
        /\ api.after = api.arg

\* C22 witness: enhance_report called on a report of a pipeline whose
\* collaborator is enabled with a server URL
C22_Witness ==
    /\ api.op = "enhance_report"
    /\ mcp.enabled /\ mcp.server_url # ""
    /\ api.arg = [title |-> "report"]
    /\ api.report = [title |-> "report"]

\* The section of the pipeline's configuration, the empty mapping when absent
Section(name) == IF name \in DOMAIN config THEN config[name] ELSE EmptyMap

\* C23: each component is constructed with its own section of the
\* configuration, an absent section being the empty mapping; so the
\* min_rows of the data section is the minimum the Loader enforces in run.
C23_SectionPerStage ==
    /\ data_ingestion_config = Section("data")
    /\ synthesis_config = Section("synthesis")
    /\ analysis_config = Section("analysis")
    /\ report_generation_config = Section("report")
    /\ mcp_config = Section("mcp")
    /\ mcp = [kind |-> "MCPClient", connected |-> FALSE,
              server_url |-> IF "server_url" \in DOMAIN Section("mcp")
                             THEN Section("mcp")["server_url"] ELSE "",
              enabled |-> IF "enabled" \in DOMAIN Section("mcp")
                          THEN Section("mcp")["enabled"] ELSE FALSE]
    /\ (Loaded /\ source.table.rows > 0 /\ source.table.cols > 0) =>
          (pc = "stage2" <=>
              source.table.rows >= (IF "min_rows" \in DOMAIN Section("data")
                                    THEN Section("data")["min_rows"] ELSE 1))

\* C23 witness: a configuration with the data and report sections only; a
\* table of exactly min_rows = 2 rows has passed the Loader
C23_Witness ==
    /\ DOMAIN config = {"data", "report"}
    /\ config["data"] = [min_rows |-> 2]
    /\ synthesis_config = EmptyMap
    /\ report_generation_config = [page_size |-> "A4"]
    /\ Loaded /\ source.table.rows = 2 /\ pc = "stage2"

\* The statistics of column c are undefined: no value, or zero variance
StatsUndefined(data, c) ==
    \A j, k \in 1..Len(data[c].cells) :
        data[c].cells[j] = Missing \/ data[c].cells[k] = Missing
        \/ data[c].cells[j] = data[c].cells[k]

\* The computation for column c fails: its label is not unique in the frame
StatsFails(data, c) == \E d \in 1..Len(data) : d # c /\ data[d].name = data[c].name

\* C24 (as claimed): when the statistical computation of a numeric column
\* fails or is undefined, the analysis does not abort: it returns, with
\* results for every other numeric column.
C24_ColumnFailureIsolated ==
    (/\ fn.op = "_statistical_analysis"
     /\ \E c \in 1..Len(fn.data) : StatsFails(fn.data, c) \/ StatsUndefined(fn.data, c)) =>
        /\ ~fn.raised
        /\ \A d \in 1..Len(fn.data) :
             ~StatsFails(fn.data, d) => fn.data[d].name \in DOMAIN fn.stats

\* The pairs the correlation result lists as strong
ListedPairs ==
    { <<fn.correlation.strong_correlations[i].variable1,
        fn.correlation.strong_correlations[i].variable2>> :
        i \in 1..Len(fn.correlation.strong_correlations) }

\* |r| > 0.7 for an entry of the correlation matrix (r = num / sqrt(den2))
AboveThreshold(r) == ~r.nan /\ 100 * r.num * r.num > 49 * r.den2

\* C25: the strong correlations are exactly the pairs of distinct numeric
\* columns with |r| > 0.7, each listed once with the earlier column first,
\* labelled 'strong positive' when r > 0 and 'strong negative' when r < 0.
C25_StrongPairs ==
    (fn.op = "_correlation_analysis" /\ NumericCount(fn.data) >= 2) =>
        LET matrix == fn.correlation.correlation_matrix
            strong == fn.correlation.strong_correlations
        IN  /\ ListedPairs = { p \in DOMAIN matrix : p[1] < p[2] /\ AboveThreshold(matrix[p]) }
            /\ Len(strong) = Cardinality(ListedPairs)
            /\ \A i \in 1..Len(strong) :
                 LET r == matrix[<<strong[i].variable1, strong[i].variable2>>]
                 IN  /\ strong[i].variable1 < strong[i].variable2
                     /\ strong[i].correlation = r
                     /\ r.num > 0 => strong[i].strength = "strong positive"
                     /\ r.num < 0 => strong[i].strength = "strong negative"
                     /\ r.num # 0

\* C25 witness: three numeric columns with a strong positive pair, a strong
\* negative pair, and in all three strong pairs
C25_Witness ==
    /\ fn.op = "_correlation_analysis"
    /\ NumericCount(fn.data) = 3
    /\ Len(fn.correlation.strong_correlations) = 3
    /\ \E i \in 1..3 : fn.correlation.strong_correlations[i].strength = "strong positive"
    /\ \E i \in 1..3 : fn.correlation.strong_correlations[i].strength = "strong negative"

\* The column parses as a date/time: anything but text that is no date
ParsesAsDate(column) == column.content # "text"

\* C26 (as claimed): the date range is taken from the first column declared
\* temporal, or else from the first column in column order that parses as a
\* date/time, and holds that column's minimum and maximum; with no such
\* column the date range is absent.
C26_DateRange ==
    (fn.op = "_temporal_aggregations") =>
        LET temporal == { c \in 1..Len(fn.data) : fn.data[c].dtype \in TemporalDtypes }
            parsing == { c \in 1..Len(fn.data) : ParsesAsDate(fn.data[c]) }
            First(S) == CHOOSE c \in S : \A d \in S : c <= d
            chosen == IF temporal # {} THEN First(temporal) ELSE First(parsing)
        IN  IF temporal = {} /\ parsing = {}
            THEN fn.temporal = EmptyMap
            ELSE /\ DOMAIN fn.temporal = {"date_range"}
                 /\ fn.temporal["date_range"].unit
                        = (IF fn.data[chosen].content = "numbers" THEN "ns" ELSE "day")
                 /\ fn.temporal["date_range"].start = date_min(fn.data[chosen].cells)
                 /\ fn.temporal["date_range"].end = date_max(fn.data[chosen].cells)

\* C27: the table the Loader returned is modified by no later stage: once
\* ingestion has returned, the run's raw_data, the argument handed to the
\* Synthesizer, the raw_data carried in the synthesized data and the raw_data
\* carried in the analysis result all equal the loaded table, at every later
\* point of the run (also when a later stage raises).
IngestionReturned == Running /\ Len(calls) >= 1 /\ (Len(calls) = 1 => pc = "stage2")

C27_TableUnchanged ==
    IngestionReturned =>
        /\ locals.raw_data = source.table
        /\ (Len(calls) >= 2 => args.synthesis = source.table)
        /\ (locals.synthesized_data # EmptyMap =>
                locals.synthesized_data["raw_data"] = source.table)
        /\ (args.analysis # EmptyMap => args.analysis["raw_data"] = source.table)
        /\ (locals.analysis_results # EmptyMap =>
                locals.analysis_results["synthesized_data"]["raw_data"] = source.table)
        /\ (args.report_generation # EmptyMap =>
                args.report_generation["synthesized_data"]["raw_data"] = source.table)

C27_Witness ==
    /\ pc = "return" /\ calls = StageOrder
    /\ source.table.rows = 3 /\ source.table.missing = 1
    /\ locals.analysis_results["synthesized_data"]["raw_data"] = source.table

\* C28: DEFAULT_CONFIG is never changed by use of the API: whatever
\* load_config calls and caller assignments into returned configurations came
\* before, the class attribute still holds the documented defaults and
\* load_config() with no file returns the documented defaults.
C28_DefaultsPreserved ==
    /\ fn.DEFAULT_CONFIG = DefaultConfig
    /\ (fn.op = "load_config" /\ ~fn.file.given => fn.ret = DefaultConfig)

\* C29: a table the Loader returned has at least one row, at least one
\* column and at least min_rows rows; so the Synthesizer is only invoked by
\* run on a table with total_cells > 0, and the completeness it computes
\* divides by a positive number.
C29_LoadedNonEmpty ==
    /\ (IngestionReturned =>
            /\ locals.raw_data.rows >= 1
            /\ locals.raw_data.cols >= 1
            /\ locals.raw_data.rows >= Get(data_ingestion_config, "min_rows", 1))
    /\ (Running /\ Len(calls) >= 2 => args.synthesis.rows * args.synthesis.cols > 0)
    /\ (locals.synthesized_data # EmptyMap =>
            /\ locals.synthesized_data["data_quality"].total_cells > 0
            /\ locals.synthesized_data["data_quality"].completeness.den > 0)

C29_Witness ==
    /\ calls = <<"ingestion", "synthesis">> /\ pc = "stage3"
    /\ Get(data_ingestion_config, "min_rows", 1) = 0
    /\ args.synthesis.rows = 1 /\ args.synthesis.cols = 1
    /\ locals.synthesized_data["data_quality"].total_cells = 1

\* What a run on a newly constructed ReportPipeline(cfg) can end with, for the
\* source src and the file found at output_path: the stages executed, the
\* error raised (NoError when run returns), the analysis result, the returned
\* path and the file left at output_path
FreshRunYields(cfg, src, file, o) ==
    LET c == MCPClient_init(Get(cfg, "mcp", EmptyMap))
        End(n, e, a, p, f) ==
            [calls |-> SubSeq(StageOrder, 1, n), error |-> e, analysis |-> a,
             path |-> p, file |-> f]
        r1 == DataIngestionStage_execute(Get(cfg, "data", EmptyMap), src)
    IN  IF r1.raised THEN o = End(1, r1.error, EmptyMap, "", file)
        ELSE \E f2 \in BOOLEAN, conn2 \in IsConnectedOutcomes(c),
                gen \in GenerateInsightsOutcomes(c) :
          LET r2 == SynthesisStage_execute(c, r1.value, f2, conn2, gen)
          IN  IF r2.raised THEN o = End(2, r2.error, EmptyMap, "", file)
              ELSE \E f3 \in BOOLEAN, conn3 \in IsConnectedOutcomes(c),
                      ana \in AnalyzeDataOutcomes(c) :
                LET r3 == AnalysisStage_execute(c, r2.value, f3, conn3, ana)
                IN  IF r3.raised THEN o = End(3, r3.error, EmptyMap, "", file)
                    ELSE \E env \in RenderOutcomes :
                      LET r4 == ReportGenerationStage_execute(r3.value, file, env)
                      IN  o = End(4, r4.error, r3.value, r4.path, r4.file)

\* What the invocation in progress has come to when it is about to return or raise
RunOutcome ==
    [calls |-> calls, error |-> err, analysis |-> locals.analysis_results,
     path |-> locals.report_path, file |-> out]

\* C30: a pipeline holds no state between invocations beyond its
\* configuration: its collaborator is as constructed from the configuration
\* at every time, and whatever run calls came before on the same instance, an
\* invocation ends with stages, error, analysis result, returned path and
\* output file that a first run on a newly constructed pipeline with the same
\* configuration can end with on the same source and output path.
C30_NoStateBetweenRuns ==
    /\ mcp = MCPClient_init(Get(config, "mcp", EmptyMap))
    /\ (fn.op = "run" /\ pc \in {"return", "except"} =>
            FreshRunYields(config, source, fn.output, RunOutcome))

C30_Witness ==
    /\ fn.op = "run" /\ fn.runs = 2 /\ fn.output = "stale"
    /\ pc = "return" /\ calls = StageOrder
    /\ source.table.rows = 2 /\ out = "report"

====
